---- MODULE Spec2Model ----
(***************************************************************************)
(* Model of port_trigger_alert.py: the module-level credential check, the  *)
(* indicator engine (calculate_rsi, fetch_indicators), the CSV journal     *)
(* (log_to_csv), the notifier (send_telegram) and the run loop (main).     *)
(*                                                                         *)
(* Floats are modelled as exact rationals extended with NaN and the two    *)
(* infinities; a finite result whose magnitude exceeds FloatMax becomes an *)
(* infinity, as an IEEE double does past sys.float_info.max.  Rounding of  *)
(* finite results and the sign of zero are not modelled (neither changes   *)
(* an outcome of the operations modelled here).  Timestamps are left out.  *)
(***************************************************************************)
EXTENDS Integers, Sequences, FiniteSets, TLC

VARIABLES
    pc,         \* where the process is: import, ready, loop, done, config_error, crashed, off
    creds,      \* the two environment variables read at import
    portfolio,  \* PORTFOLIO, as a sequence in declaration order
    i,          \* 1-based position of main's for loop in PORTFOLIO
    result,     \* main's local `result` (None or the 5-tuple)
    status,     \* main's local `status`: 0 is "WAIT", k is "AVERAGE ZONE Lk"
    sent,       \* the calls made to send_telegram, in order, with their outcome
    journal,    \* trade_journal.csv: whether it exists, and its lines
    console,    \* the lines printed, in order
    journalAtStart, \* history: trade_journal.csv as the run found it
    logCalls,   \* history: the rows handed to log_to_csv, in call order
    matches,    \* history: the symbols whose band scan broke at a band, in order
    close,      \* indicator engine alone: the Close column handed to it
    snap,       \* indicator engine alone: what fetch_indicators returned
    rsiOut,     \* indicator engine alone: calculate_rsi's value at the latest date
    ipc         \* indicator engine alone: input, rsi, done, off

history == <<journalAtStart, logCalls, matches>>
engine == <<close, snap, rsiOut, ipc>>
vars == <<pc, creds, portfolio, i, result, status, sent, journal, console,
          history, engine>>

\* ---------------------------------------------------------------- bounds
\* The largest finite magnitude of the float model.
FloatMax == 5000
\* Entries a fetched series may have beyond the slow window.
MaxExtra == 1
\* Number of freely chosen closes at the end of a series.
TailLen == 2
\* Longest band list of the one-instrument configurations.
MaxBands == 2

\* ------------------------------------------------------- program constants
PeriodFast == 20
PeriodSlow == 50
RsiPeriod == 14

\* ------------------------------------------------------------------ floats
NaN == [k |-> "nan", n |-> 0, d |-> 1]
PInf == [k |-> "inf", n |-> 1, d |-> 1]
NInf == [k |-> "inf", n |-> -1, d |-> 1]

Abs(x) == IF x < 0 THEN -x ELSE x

RECURSIVE GCD(_, _)
GCD(a, b) == IF b = 0 THEN a ELSE GCD(b, a % b)

\* The float nearest n/d (d > 0): the reduced fraction, or an infinity on overflow.
FMake(n, d) ==
    IF Abs(n) > FloatMax * d
    THEN (IF n > 0 THEN PInf ELSE NInf)
    ELSE LET g == GCD(Abs(n), d)
         IN  IF n = 0 THEN [k |-> "fin", n |-> 0, d |-> 1]
             ELSE [k |-> "fin", n |-> n \div g, d |-> d \div g]

Fin(n) == FMake(n, 1)

IsNaN(x) == x.k = "nan"
IsInf(x) == x.k = "inf"
IsFinite(x) == x.k = "fin"

FNeg(x) == IF IsNaN(x) THEN NaN ELSE [x EXCEPT !.n = -x.n]

FAdd(x, y) ==
    IF IsNaN(x) \/ IsNaN(y) THEN NaN
    ELSE IF IsInf(x) /\ IsInf(y) THEN (IF x.n = y.n THEN x ELSE NaN)
    ELSE IF IsInf(x) THEN x
    ELSE IF IsInf(y) THEN y
    ELSE FMake(x.n * y.d + y.n * x.d, x.d * y.d)

FSub(x, y) == FAdd(x, FNeg(y))

Sign(n) == IF n > 0 THEN 1 ELSE IF n < 0 THEN -1 ELSE 0

\* Element-wise float division as numpy does it: no exception, x/0 is an
\* infinity for x # 0 and NaN for x = 0.
FDiv(x, y) ==
    IF IsNaN(x) \/ IsNaN(y) THEN NaN
    ELSE IF IsInf(x) /\ IsInf(y) THEN NaN
    ELSE IF IsInf(x) THEN (IF x.n * Sign(y.n) < 0 THEN NInf ELSE PInf)
    ELSE IF IsInf(y) THEN Fin(0)
    ELSE IF y.n = 0 THEN (IF x.n = 0 THEN NaN ELSE IF x.n > 0 THEN PInf ELSE NInf)
    ELSE FMake(x.n * y.d * Sign(y.n), x.d * Abs(y.n))

\* x < y on floats: false as soon as one side is NaN.
FLt(x, y) ==
    IF IsNaN(x) \/ IsNaN(y) THEN FALSE
    ELSE IF IsInf(x) THEN x.n < 0 /\ ~(IsInf(y) /\ y.n < 0)
    ELSE IF IsInf(y) THEN y.n > 0
    ELSE x.n * y.d < y.n * x.d

FGt(x, y) == FLt(y, x)
FLe(x, y) == ~IsNaN(x) /\ ~IsNaN(y) /\ ~FLt(y, x)

\* --------------------------------------------------------- pandas helpers
\* Series.diff(): NaN at the head, then the difference to the previous entry.
Diff(s) == [j \in 1..Len(s) |-> IF j = 1 THEN NaN ELSE FSub(s[j], s[j - 1])]

\* Series.clip(lower=0) and Series.clip(upper=0): NaN stays NaN.
ClipLower0(x) == IF IsNaN(x) THEN NaN ELSE IF FLt(x, Fin(0)) THEN Fin(0) ELSE x
ClipUpper0(x) == IF IsNaN(x) THEN NaN ELSE IF FGt(x, Fin(0)) THEN Fin(0) ELSE x

\* Rolling._prep_values: an infinite entry is handed to the window kernel as NaN.
PrepValue(x) == IF IsInf(x) THEN NaN ELSE x

\* The window kernel's running state (pandas' roll_mean): the sum, kept with
\* compensated (Kahan) summation, and the count of non-NaN entries in the
\* window.  Once the sum has overflowed, the compensation is infinite and the
\* next entry to enter or leave turns the sum into NaN.
RollZero == [sum |-> Fin(0), comp |-> Fin(0), nobs |-> 0]

RollAdd(st, v) ==
    IF IsNaN(v) THEN st
    ELSE LET y == FSub(v, st.comp)
             t == FAdd(st.sum, y)
         IN  [sum |-> t, comp |-> FSub(FSub(t, st.sum), y), nobs |-> st.nobs + 1]

RollRemove(st, v) ==
    IF IsNaN(v) THEN st
    ELSE LET y == FSub(FNeg(v), st.comp)
             t == FAdd(st.sum, y)
         IN  [sum |-> t, comp |-> FSub(FSub(t, st.sum), y), nobs |-> st.nobs - 1]

\* One step of the kernel's loop: entry j enters the window, entry j - w leaves it.
RollStep(st, s, w, j) ==
    RollAdd(IF j > w THEN RollRemove(st, PrepValue(s[j - w])) ELSE st, PrepValue(s[j]))

\* The kernel's loop from entry j to entry last, started in state st.
RECURSIVE RollFrom(_, _, _, _, _)
RollFrom(st, s, w, j, last) ==
    \* (the first conjunct, always true, has TLC evaluate st before the next step)
    IF st.nobs >= 0 /\ j > last THEN st
    ELSE RollFrom(RollStep(st, s, w, j), s, w, j + 1, last)

\* The kernel's state after entry j of s, for a window of w entries.
RollState(s, w, j) == RollFrom(RollZero, s, w, 1, j)

\* Series.rolling(w).mean() at entry j (min_periods = w).
RollingMeanAt(s, w, j) ==
    LET st == RollState(s, w, j)
    IN  IF st.nobs >= w THEN FDiv(st.sum, Fin(st.nobs)) ELSE NaN

\* ------------------------------------------------------------- indicators
\* calculate_rsi(close) at entry j, for j in 1..Len(close).
calculate_rsi(cl, j) ==
    LET delta == Diff(cl)
        gain == [m \in 1..Len(cl) |-> ClipLower0(delta[m])]
        loss == [m \in 1..Len(cl) |-> FNeg(ClipUpper0(delta[m]))]
        rs == FDiv(RollingMeanAt(gain, RsiPeriod, j), RollingMeanAt(loss, RsiPeriod, j))
    IN  FSub(Fin(100), FDiv(Fin(100), FAdd(Fin(1), rs)))

None == [ok |-> FALSE]

\* TrendOf with the comparisons to DMA20 made non-strict.
TrendOfNonStrict(price, dma20, dma50) ==
    IF FLe(dma20, price) /\ FGt(dma20, dma50) THEN "Bullish"
    ELSE IF FLe(price, dma20) /\ FLt(dma20, dma50) THEN "Bearish"
    ELSE "Sideways"

\* Lines 85-90: the if / elif / else on the chained comparisons.
TrendOf(price, dma20, dma50) ==
    IF FGt(price, dma20) /\ FGt(dma20, dma50) THEN "Bullish"
    ELSE IF FLt(price, dma20) /\ FLt(dma20, dma50) THEN "Bearish"
    ELSE "Sideways"

\* pd.isna on a float: NaN only.
PdIsNa(x) == IsNaN(x)

\* fetch_indicators, given the Close column yf.download returned (an empty
\* sequence when the download failed or returned nothing).
fetch_indicators(cl) ==
    IF Len(cl) = 0 \/ Len(cl) < PeriodSlow THEN None
    ELSE LET last == Len(cl)
             price == cl[last]
             dma20 == RollingMeanAt(cl, PeriodFast, last)
             dma50 == RollingMeanAt(cl, PeriodSlow, last)
             rsi == calculate_rsi(cl, last)
         IN  IF PdIsNa(price) \/ PdIsNa(dma20) \/ PdIsNa(dma50) \/ PdIsNa(rsi)
             THEN None
             ELSE [ok |-> TRUE, price |-> price, dma20 |-> dma20, dma50 |-> dma50,
                   rsi |-> rsi, trend |-> TrendOf(price, dma20, dma50)]

\* ------------------------------------------------------------ input series
\* A series of n closes: the value b, then the closes of tail at its end.
Series(n, b, tail) ==
    [j \in 1..n |-> IF j > n - Len(tail) THEN tail[j - (n - Len(tail))] ELSE b]

RECURSIVE SeqsUpTo(_, _)
SeqsUpTo(S, m) ==
    IF m = 0 THEN {<<>>}
    ELSE LET shorter == SeqsUpTo(S, m - 1)
         IN  shorter \cup {Append(t, x) : t \in {u \in shorter : Len(u) = m - 1}, x \in S}

\* A finite close so large that a window's sum with it overflows.
Big == Fin(FloatMax - 100)

TailVals == {NaN, PInf, Fin(5), Fin(11), Fin(15), Fin(29), Big}

Lengths == {0, RsiPeriod + 1, PeriodSlow - 1} \cup (PeriodSlow .. PeriodSlow + MaxExtra)

EngineInputs ==
    {Series(n, Fin(10), t) : n \in Lengths \ {0}, t \in SeqsUpTo(TailVals, TailLen)}
    \cup {<<>>}

\* ------------------------------------------------- indicator engine alone
NoOrchestrator ==
    /\ pc = "off" /\ creds = [token |-> "set", chat |-> "set"] /\ portfolio = <<>>
    /\ i = 0 /\ result = None /\ status = 0 /\ sent = <<>>
    /\ journal = [exists |-> FALSE, lines |-> <<>>] /\ console = <<>>
    /\ journalAtStart = journal /\ logCalls = <<>> /\ matches = <<>>

InitInd ==
    /\ NoOrchestrator
    /\ close \in EngineInputs
    /\ snap = None
    /\ rsiOut = NaN
    /\ ipc = "input"

Call_calculate_rsi ==
    /\ ipc = "input"
    /\ Len(close) > 0
    /\ rsiOut' = calculate_rsi(close, Len(close))
    /\ ipc' = "rsi"
    /\ UNCHANGED <<pc, creds, portfolio, i, result, status, sent, journal, console,
                   history, close, snap>>

Call_fetch_indicators ==
    /\ ipc \in {"input", "rsi"}
    /\ snap' = fetch_indicators(close)
    /\ ipc' = "done"
    /\ UNCHANGED <<pc, creds, portfolio, i, result, status, sent, journal, console,
                   history, close, rsiOut>>

NextInd == Call_calculate_rsi \/ Call_fetch_indicators

SpecInd == InitInd /\ [][NextInd]_vars

\* ------------------------------------------------------------- formatting
\* n/d (d > 0) rounded to an integer, ties to even.
RoundHalfEven(n, d) ==
    LET q == n \div d
        r == n % d
    IN  IF 2 * r < d THEN q
        ELSE IF 2 * r > d THEN q + 1
        ELSE IF q % 2 = 0 THEN q ELSE q + 1

\* f"{x:.2f}" (scale 100) and f"{x:.1f}" (scale 10): the text, as the number of
\* 1/scale units it shows, or "inf" / "nan".
FormatFixed(x, scale) ==
    IF IsFinite(x) THEN [text |-> "fixed", units |-> RoundHalfEven(x.n * scale, x.d), scale |-> scale]
    ELSE [text |-> x.k, units |-> x.n, scale |-> scale]

\* round(x, 2): the float nearest x with two decimals; NaN and infinities stay.
Round2(x) == IF IsFinite(x) THEN FMake(RoundHalfEven(x.n * 100, x.d), 100) ELSE x

\* ---------------------------------------------------------------- journal
HeaderLine == [kind |-> "header"]

CsvRow(symbol, name, level, price, qty, trend, rsi, dma20, dma50) ==
    [kind |-> "row", symbol |-> symbol, name |-> name, level |-> level,
     price |-> Round2(price), qty |-> qty, trend |-> trend, rsi |-> Round2(rsi),
     dma20 |-> Round2(dma20), dma50 |-> Round2(dma50)]

\* WriteHeader asking for the header on every call.
WriteHeaderAlways(file) == TRUE

\* header = not os.path.exists(CSV_FILE)
WriteHeader(file) == ~file.exists

\* log_to_csv: DataFrame.to_csv(CSV_FILE, mode="a", header=header) on the file.
log_to_csv(file, row) ==
    [exists |-> TRUE,
     lines |-> file.lines \o (IF WriteHeader(file) THEN <<HeaderLine>> ELSE <<>>) \o <<row>>]

\* ---------------------------------------------------------- configuration
Level(low, high, qty) == <<low, high, qty>>

\* The first three entries of PORTFOLIO, in declaration order.
PORTFOLIO == <<
    [symbol |-> "DIVOPPBEES.NS", name |-> "Nippon India ETF Dividend Opportunities",
     levels |-> <<Level(Fin(78), Fin(79), 25), Level(Fin(74), Fin(75), 35)>>],
    [symbol |-> "HEALTHY.NS", name |-> "BSL Nifty HealthCare ETF",
     levels |-> <<Level(FMake(138, 10), FMake(140, 10), 100),
                  Level(FMake(128, 10), FMake(132, 10), 150)>>],
    [symbol |-> "MAHKTECH.NS", name |-> "Mahktech",
     levels |-> <<Level(FMake(255, 10), FMake(260, 10), 150),
                  Level(Fin(23), Fin(24), 200)>>] >>

\* `not X` on an environment variable: unset (None) and empty are both falsy.
Falsy(v) == v \in {"unset", "empty"}

CredentialsMissing(c) == Falsy(c.token) \/ Falsy(c.chat)

\* -------------------------------------------------------------- band scan
\* InBand with both ends exclusive.
InBandExclusive(price, level) == FLt(level[1], price) /\ FLt(price, level[2])

\* Whether the chained comparison low <= price <= high holds for a level.
InBand(price, level) == FLe(level[1], price) /\ FLe(price, level[2])

\* main's for loop over enumerate(levels, start=1), from index k on: the index
\* at which it breaks, 0 when it runs to the end.
RECURSIVE ScanFrom(_, _, _)
ScanFrom(price, levels, k) ==
    IF k > Len(levels) THEN 0
    ELSE IF InBand(price, levels[k]) THEN k
    ELSE ScanFrom(price, levels, k + 1)

MatchedLevel(price, levels) == ScanFrom(price, levels, 1)

\* --------------------------------------------------------------- notifier
TelegramMessage(data, r, idx) ==
    [name |-> data.name, symbol |-> data.symbol, price |-> FormatFixed(r.price, 100),
     level |-> idx, qty |-> data.levels[idx][3], trend |-> r.trend,
     rsi |-> FormatFixed(r.rsi, 10), dma20 |-> FormatFixed(r.dma20, 100),
     dma50 |-> FormatFixed(r.dma50, 100)]

\* What requests.post(..., timeout=10) can do: return a 2xx response, return an
\* error response (the return value is dropped), or raise (ConnectionError, Timeout).
PostOutcomes == {"delivered", "rejected", "raised"}

\* Whether an exception of send_telegram leaves main (nothing catches it).
SendPropagates(outcome) == outcome = "raised"

\* ------------------------------------------------------------ market data
Endpoints(levels) == UNION {{levels[k][1], levels[k][2]} : k \in 1..Len(levels)}

\* Latest closes the provider may report for an instrument: missing, at, just
\* below and just above each band end, and one price clear of the sample bands.
ClosePrices(levels) ==
    {NaN, Fin(17)} \cup Endpoints(levels)
    \cup {FSub(e, Fin(1)) : e \in Endpoints(levels)}
    \cup {FAdd(e, Fin(1)) : e \in Endpoints(levels)}

\* The Close columns yf.download may return for an instrument: nothing, or
\* around the slow window's length, the latest close among ClosePrices.
MarketData(levels) ==
    {<<>>} \cup {Series(n, Fin(50), <<p>>) :
                    n \in (PeriodSlow - 1) .. (PeriodSlow + MaxExtra),
                    p \in ClosePrices(levels)}

\* The bands of the one-instrument tables, and their band lists.
BandSet == {Level(Fin(10), Fin(20), 1), Level(Fin(15), Fin(25), 2)}

BandLists == SeqsUpTo(BandSet, MaxBands)

AllMarketData ==
    UNION ({MarketData(PORTFOLIO[k].levels) : k \in 1..Len(PORTFOLIO)}
           \cup {MarketData(l) : l \in BandLists})

\* ----------------------------------------------------------------- the run
NoEngine == close = <<>> /\ snap = None /\ rsiOut = NaN /\ ipc = "off"

OldRow == CsvRow("GAIL.NS", "GAIL", 1, Fin(151), 50, "Sideways", Fin(40), Fin(151), Fin(151))

\* trade_journal.csv before the run: absent, present and empty, or left by an
\* earlier run.
JournalsAtStart ==
    { [exists |-> FALSE, lines |-> <<>>],
      [exists |-> TRUE, lines |-> <<>>],
      [exists |-> TRUE, lines |-> <<HeaderLine, OldRow>>] }

InitRun(config) ==
    /\ pc = "import"
    /\ creds \in [token : {"unset", "empty", "set"}, chat : {"unset", "empty", "set"}]
    /\ portfolio = config
    /\ i = 0
    /\ result = None
    /\ status = 0
    /\ sent = <<>>
    /\ journal \in JournalsAtStart
    /\ console = <<>>
    /\ journalAtStart = journal
    /\ logCalls = <<>>
    /\ matches = <<>>
    /\ NoEngine

Init == InitRun(PORTFOLIO)

\* Module level: read the two secrets, raise RuntimeError when one is missing.
CheckCredentials ==
    /\ pc = "import"
    /\ pc' = IF CredentialsMissing(creds) THEN "config_error" ELSE "ready"
    /\ UNCHANGED <<creds, portfolio, i, result, status, sent, journal, console,
                   history, engine>>

\* main, up to the for loop.
MainStart ==
    /\ pc = "ready"
    /\ console' = Append(console, [kind |-> "start"])
    /\ i' = 1
    /\ pc' = "loop"
    /\ UNCHANGED <<creds, portfolio, result, status, sent, journal, history, engine>>

StatusLine(data, r, st) ==
    [kind |-> "status", symbol |-> data.symbol, price |-> FormatFixed(r.price, 100),
     trend |-> r.trend, rsi |-> FormatFixed(r.rsi, 10), status |-> st]

\* fetch_indicators on every series the provider may return, computed once.
FetchTable == [cl \in AllMarketData |-> fetch_indicators(cl)]

\* One pass of main's for loop, for what fetch_indicators returned and what
\* the HTTP post does if it is made.
LoopBody(r, outcome) ==
    LET data == portfolio[i]
        idx == MatchedLevel(r.price, data.levels)
    IN  /\ result' = r
        /\ IF r = None
           THEN /\ console' = Append(console, [kind |-> "unavailable", symbol |-> data.symbol])
                /\ i' = i + 1
                /\ UNCHANGED <<pc, status, sent, journal, logCalls, matches>>
           ELSE IF idx = 0
           THEN /\ status' = 0
                /\ console' = Append(console, StatusLine(data, r, 0))
                /\ i' = i + 1
                /\ UNCHANGED <<pc, sent, journal, logCalls, matches>>
           ELSE LET row == CsvRow(data.symbol, data.name, idx, r.price,
                                  data.levels[idx][3], r.trend, r.rsi, r.dma20, r.dma50)
                IN  /\ status' = idx
                    /\ matches' = Append(matches, data.symbol)
                    /\ sent' = Append(sent, [msg |-> TelegramMessage(data, r, idx),
                                             outcome |-> outcome])
                    /\ IF SendPropagates(outcome)
                       THEN /\ pc' = "crashed"
                            /\ UNCHANGED <<i, journal, console, logCalls>>
                       ELSE /\ journal' = log_to_csv(journal, row)
                            /\ logCalls' = Append(logCalls, row)
                            /\ console' = Append(console, StatusLine(data, r, idx))
                            /\ i' = i + 1
                            /\ UNCHANGED pc
        /\ UNCHANGED <<creds, portfolio, journalAtStart, engine>>

ProcessInstrument ==
    /\ pc = "loop"
    /\ i <= Len(portfolio)
    /\ \E cl \in MarketData(portfolio[i].levels), outcome \in PostOutcomes :
          LoopBody(FetchTable[cl], outcome)

\* main, after the for loop.
MainEnd ==
    /\ pc = "loop"
    /\ i > Len(portfolio)
    /\ console' = Append(console, [kind |-> "end"])
    /\ pc' = "done"
    /\ UNCHANGED <<creds, portfolio, i, result, status, sent, journal, history, engine>>

Next == CheckCredentials \/ MainStart \/ ProcessInstrument \/ MainEnd

Spec == Init /\ [][Next]_vars

\* ------------------------------------- the run under any one-instrument table
InitBands ==
    \E levels \in BandLists :
        InitRun(<<[symbol |-> "TEST.NS", name |-> "Test", levels |-> levels]>>)

SpecBands == InitBands /\ [][Next]_vars

\* ================================================================= claims
\* The instrument the last pass of the loop was about.
LastIndex == IF pc = "crashed" THEN i ELSE i - 1

\* p lies in the closed range of a level (p is a number here).
Contains(p, lv) == ~FLt(p, lv[1]) /\ ~FLt(lv[2], p)

Hits(p, levels) == {k \in 1..Len(levels) : Contains(p, levels[k])}

RunOver == pc \in {"done", "crashed"}

OutcomeLines == SelectSeq(console, LAMBDA l : l.kind \in {"status", "unavailable"})

UnavailableLines == SelectSeq(console, LAMBDA l : l.kind = "unavailable")

NothingDone ==
    /\ console = <<>> /\ sent = <<>> /\ journal = journalAtStart
    /\ result = None /\ logCalls = <<>> /\ matches = <<>>

\* C1: after a pass of the loop that had a snapshot, status names the lowest
\* 1-based index of a band with low <= price <= high (ends included), that band
\* is the one notified, and status is WAIT with nothing notified for the
\* instrument exactly when no band contains the price.
C1_FirstMatchWins ==
    result # None =>
        LET data == portfolio[LastIndex]
            hits == Hits(result.price, data.levels)
        IN  /\ (hits = {}) <=> (status = 0)
            /\ hits = {} => \A k \in 1..Len(sent) : sent[k].msg.symbol # data.symbol
            /\ hits # {} =>
                  /\ status \in hits
                  /\ \A k \in hits : status <= k
                  /\ sent # <<>>
                  /\ sent[Len(sent)].msg.symbol = data.symbol
                  /\ sent[Len(sent)].msg.level = status
                  /\ sent[Len(sent)].msg.qty = data.levels[status][3]

\* Two listed bands contain the price, which sits on the first band's upper
\* end, and the first band was reported.
C1_Witness ==
    /\ result # None
    /\ Len(portfolio[LastIndex].levels) = 2
    /\ Hits(result.price, portfolio[LastIndex].levels) = {1, 2}
    /\ result.price = portfolio[LastIndex].levels[1][2]
    /\ status = 1
    /\ sent # <<>> /\ sent[Len(sent)].msg.level = 1

\* C2: a send that did not deliver is contained: the run is not aborted, the
\* journal holds the row of that matched band and the instrument's status
\* line is printed.
C2_SendFailureContained ==
    \A k \in 1..Len(sent) :
        sent[k].outcome # "delivered" =>
            /\ pc # "crashed"
            /\ \E m \in 1..Len(logCalls) :
                  /\ logCalls[m].symbol = sent[k].msg.symbol
                  /\ logCalls[m].level = sent[k].msg.level
            /\ \E m \in 1..Len(console) :
                  /\ console[m].kind = "status"
                  /\ console[m].symbol = sent[k].msg.symbol

\* C3: an instrument without data gets an "unavailable" line, no notification
\* and no journal row, and never keeps the run from its successful end; a run
\* that is over with one instrument unavailable and one matching a band has
\* made exactly one notification, one journal row and one "unavailable" line.
C3_UnavailableNonFatal ==
    /\ \A k \in 1..Len(UnavailableLines) :
          /\ \A m \in 1..Len(sent) : sent[m].msg.symbol # UnavailableLines[k].symbol
          /\ \A m \in 1..Len(logCalls) : logCalls[m].symbol # UnavailableLines[k].symbol
    /\ (RunOver /\ UnavailableLines # <<>>) => pc = "done"
    /\ (RunOver /\ Len(UnavailableLines) = 1 /\ Len(matches) = 1) =>
          /\ Len(sent) = 1
          /\ Len(logCalls) = 1
          /\ Len(journal.lines) = Len(journalAtStart.lines) + 1
                                  + (IF journalAtStart.exists THEN 0 ELSE 1)

\* C4: no instrument is notified or journaled twice, and in a run that is over
\* the notifier calls and the journal rows each number the instruments for
\* which a band matched.
C4_OnePerMatch ==
    /\ \A k, m \in 1..Len(sent) : sent[k].msg.symbol = sent[m].msg.symbol => k = m
    /\ \A k, m \in 1..Len(logCalls) : logCalls[k].symbol = logCalls[m].symbol => k = m
    /\ RunOver => Len(sent) = Len(matches) /\ Len(logCalls) = Len(matches)

\* C5: with a credential unset or empty the run ends in the configuration
\* error with nothing fetched, notified, journaled or printed, and no other
\* error ends a run.
C5_OnlyConfigErrorEndsRun ==
    /\ CredentialsMissing(creds) => pc \in {"import", "config_error"} /\ NothingDone
    /\ pc \in {"config_error", "crashed"} => CredentialsMissing(creds)

\* C6: a run that passed the credential check and is over has printed exactly
\* one outcome line per configured instrument, in declaration order.
C6_OneLinePerInstrument ==
    RunOver =>
        /\ Len(OutcomeLines) = Len(portfolio)
        /\ \A k \in 1..Len(OutcomeLines) : OutcomeLines[k].symbol = portfolio[k].symbol

\* C7: fetch_indicators returns None for a series of fewer than 50 entries,
\* and every snapshot it returns has price, DMA20, DMA50 and RSI finite.
C7_SnapshotFinite ==
    ipc = "done" =>
        /\ Len(close) < 50 => snap = None
        /\ snap # None =>
              /\ IsFinite(snap.price) /\ IsFinite(snap.dma20)
              /\ IsFinite(snap.dma50) /\ IsFinite(snap.rsi)

\* C8: in every snapshot the trend is Bullish exactly when
\* price > DMA20 > DMA50, Bearish exactly when price < DMA20 < DMA50, and
\* Sideways otherwise, any equality included.
C8_TrendLabel ==
    (ipc = "done" /\ snap # None) =>
        LET up == FLt(snap.dma20, snap.price) /\ FLt(snap.dma50, snap.dma20)
            down == FLt(snap.price, snap.dma20) /\ FLt(snap.dma20, snap.dma50)
        IN  /\ snap.trend \in {"Bullish", "Bearish", "Sideways"}
            /\ (snap.trend = "Bullish") <=> up
            /\ (snap.trend = "Bearish") <=> down
            /\ (snap.price = snap.dma20 \/ snap.dma20 = snap.dma50) => snap.trend = "Sideways"

\* A snapshot whose price equals its DMA20, above its DMA50, labelled Sideways.
C8_Witness ==
    /\ ipc = "done" /\ snap # None
    /\ snap.price = snap.dma20
    /\ FLt(snap.dma50, snap.dma20)
    /\ snap.trend = "Sideways"

\* C9: for a series of finite closes that fills the 14-period window,
\* calculate_rsi's latest value is a number in [0, 100], also when the average
\* loss is zero.
C9_RsiDefined ==
    (ipc = "rsi" /\ Len(close) > RsiPeriod /\ \A j \in 1..Len(close) : IsFinite(close[j])) =>
        /\ IsFinite(rsiOut)
        /\ FLe(Fin(0), rsiOut)
        /\ FLe(rsiOut, Fin(100))

\* C10: the journal is what the run found, then the header if the file did
\* not exist and a row was logged, then one row per log_to_csv call in call
\* order; from an absent file that is one header line followed by the rows.
C10_JournalAppendOnly ==
    /\ journal.lines =
          journalAtStart.lines
          \o (IF ~journalAtStart.exists /\ logCalls # <<>> THEN <<HeaderLine>> ELSE <<>>)
          \o logCalls
    /\ (~journalAtStart.exists /\ logCalls # <<>>) =>
          /\ journal.lines[1] = HeaderLine
          /\ \A k \in 2..Len(journal.lines) : journal.lines[k].kind = "row"
          /\ Len(journal.lines) = Len(logCalls) + 1
    /\ journal.exists <=> (journalAtStart.exists \/ logCalls # <<>>)

\* The file did not exist and two rows have been logged.
C10_Witness ==
    /\ ~journalAtStart.exists
    /\ Len(logCalls) = 2
    /\ Len(journal.lines) = 3
====
